---- MODULE Spec2Model ----
(***************************************************************************)
(* acertmgr: the ACME (v1) client of acertmgr_ssl.py.                      *)
(*                                                                         *)
(* One run of a caller that registers the account key (register_account)   *)
(* and then fetches a certificate (get_crt_from_csr).  Every network call  *)
(* (urlopen) is one step whose answer the environment chooses.  Strings    *)
(* that the code computes with (tokens, key authorizations, fetched        *)
(* bodies) are sequences of one-character strings.                         *)
(***************************************************************************)
EXTENDS Integers, Sequences, FiniteSets, TLC

\* ------------------------------------------------------------------ bounds
MaxDomains == 2     \* longest domain list of a run
MaxRegCalls == 2    \* register_account calls the caller makes at most
MaxPending == 2     \* pending answers counted exactly per domain
MaxTokenLen == 2    \* longest challenge token the CA issues

\* --------------------------------------------------------------- constants
SleepInterval == 2  \* time.sleep(2)
None == 0           \* getattr(e, "code", None): no HTTP status

\* ---------------------------------------------------------------- alphabet
\* representatives of the character classes the code distinguishes
SafeChars == {"a", "_", "-"}          \* members of [A-Za-z0-9_\-]
Whitespace == {" "}                   \* removed by str.strip()
Chars == {"a", "/", " "}              \* characters of CA-issued tokens

\* the i-th domain name of a run (the first is the CN)
DomainName(i) ==
    CASE i = 1 -> "example.com"
      [] i = 2 -> "www.example.com"
      [] i = 3 -> "mail.example.com"
      [] OTHER -> "ftp.example.com"

SeqsUpTo(S, n) == UNION {[1..k -> S] : k \in 0..n}

DomainLists == {[i \in 1..k |-> DomainName(i)] : k \in 0..MaxDomains}
Tokens == SeqsUpTo(Chars, MaxTokenLen) \ {<<>>}

\* ------------------------------------------------------------ pure helpers
\* base64_enc / json.dumps: an injective encoding, kept apart from its input
base64_enc(b) == <<"b64", b>>
base64_dec(e) == e[2]

\* acme_header(key): {"alg": "RS256", "jwk": {e, kty, n}} of the key
acme_header(key) == [alg |-> "RS256", jwk |-> [kty |-> "RSA", pub |-> key]]

\* account_thumbprint: base64 of sha256 of the canonical jwk; one safe symbol
Thumbprint(hdr) == <<"a">>

\* protected = copy.deepcopy(header); protected["nonce"] = nonce
ProtectedHeader(hdr, nonce) ==
    [alg |-> hdr.alg, jwk |-> hdr.jwk, nonce |-> nonce]

\* mutant: whitespace is left in the file name
SanitizeKeepsSpace(t) ==
    [i \in DOMAIN t |-> IF t[i] \in SafeChars \cup Whitespace THEN t[i] ELSE "_"]

\* re.sub(r"[^A-Za-z0-9_\-]", "_", token)
Sanitize(t) == [i \in DOMAIN t |-> IF t[i] \in SafeChars THEN t[i] ELSE "_"]

\* "{0}.{1}".format(token, account_thumbprint)
KeyAuthorization(token, thumb) == token \o <<".">> \o thumb

RECURSIVE LStrip(_)
LStrip(s) == IF s # <<>> /\ Head(s) \in Whitespace THEN LStrip(Tail(s)) ELSE s

RECURSIVE RStrip(_)
RStrip(s) ==
    IF s # <<>> /\ s[Len(s)] \in Whitespace
    THEN RStrip(SubSeq(s, 1, Len(s) - 1))
    ELSE s

\* str.strip()
Strip(s) == RStrip(LStrip(s))

\* ------------------------------------------------------------------- state
VARIABLES
    pc,             \* position of the run
    domains,        \* the domain list given to get_crt_from_csr
    idx,            \* 1-based position of `domain` in the for loop (0: not in it)
    header,         \* local `header` of the running function
    thumb,          \* account_thumbprint
    site,           \* which send_signed call is running
    payload,        \* payload argument of the running send_signed
    protected,      \* local `protected` of send_signed
    code,           \* status returned by the last send_signed
    result,         \* body returned by the last send_signed
    challenge,      \* the selected http-01 challenge
    token,          \* sanitized token
    keyauth,        \* keyauthorization
    resp_data,      \* the stripped body the self-check fetched
    resp,           \* the last response get_crt_from_csr opened: its url and raw body
    files,          \* acme_dir: the files [name, content] in it
    error,          \* the exception that ended the run
    cert,           \* the returned certificate
    regResults,     \* history: <<status, returned value>> of finished register_account calls
    regCalls,       \* register_account calls started
    caNonce,        \* last nonce the CA handed out
    nonceFetches,   \* nonces obtained from CA/directory
    sent,           \* history: the signed POSTs and the status each met, in order
    transport,      \* what the last urlopen of send_signed met
    polls,          \* status GETs made for the domain at idx
    sleeps,         \* time.sleep calls made for the domain at idx
    pendings,       \* pending answers received for the domain at idx
    waited,         \* seconds slept for the domain at idx
    overflow,       \* more than MaxPending pending answers at idx: the four counters stopped
    lastStatus,     \* per domain position: how the last status GET ended
    wrote,          \* per domain position: proof files written
    removed,        \* per domain position: proof files removed
    checked,        \* per domain position: how the self-check ended
    cfg             \* parse_config_entry: its inputs, its position and config

vars == <<pc, domains, idx, header, thumb, site, payload, protected, code, result,
          challenge, token, keyauth, files, error, cert, regResults, regCalls,
          caNonce, nonceFetches, sent, transport, polls, sleeps, pendings, waited,
          overflow, lastStatus, wrote, removed, resp_data, resp, checked, cfg>>

account_key == "k1"

NoHeader == [alg |-> "none", jwk |-> [kty |-> "none", pub |-> "none"]]
NoBody == [site |-> "none", status |-> None, challenges |-> <<>>]
NoChallenge == [type |-> "none", token |-> <<>>, uri |-> 0]
NoError == [type |-> "none", msg |-> "none", code |-> None, body |-> NoBody, at |-> 0]
NoTransport == [phase |-> "none", kind |-> "none", status |-> None]
NoPayload == [resource |-> "none"]
NoCert == <<"none", NoBody>>
NoResp == [url |-> "none", body |-> <<>>]
NoCfg == [step |-> 0]

Positions == 1..(MaxDomains + 1)

\* nothing has run yet
Idle ==
    /\ pc = "caller"
    /\ idx = 0
    /\ header = NoHeader
    /\ thumb = <<>>
    /\ site = "none"
    /\ payload = NoPayload
    /\ protected = NoHeader
    /\ code = None
    /\ result = NoBody
    /\ challenge = NoChallenge
    /\ token = <<>>
    /\ keyauth = <<>>
    /\ files = {}
    /\ error = NoError
    /\ cert = NoCert
    /\ regResults = <<>>
    /\ regCalls = 0
    /\ caNonce = 0
    /\ nonceFetches = 0
    /\ sent = <<>>
    /\ transport = NoTransport
    /\ polls = 0
    /\ sleeps = 0
    /\ pendings = 0
    /\ waited = 0
    /\ overflow = FALSE
    /\ lastStatus = [i \in Positions |-> "none"]
    /\ wrote = [i \in Positions |-> 0]
    /\ removed = [i \in Positions |-> 0]
    /\ resp_data = <<>>
    /\ resp = NoResp
    /\ checked = [i \in Positions |-> "none"]

Init ==
    /\ Idle
    /\ domains \in DomainLists
    /\ cfg = NoCfg

\* ----------------------------------------------------------------- helpers
\* mutant: an error is recorded but the loop goes on with the same domain
RaiseAndRetry(type, msg, c, b) ==
    /\ pc' = IF idx >= 1 THEN "loop" ELSE "failed"
    /\ error' = [type |-> type, msg |-> msg, code |-> c, body |-> b, at |-> idx]

\* raise <type>(<msg> ...): the run ends with the exception
Raise(type, msg, c, b) ==
    /\ pc' = "failed"
    /\ error' = [type |-> type, msg |-> msg, code |-> c, body |-> b, at |-> idx]

\* entry of send_signed(account_key, CA, url, header, payload)
BeginSendSigned(s, p) ==
    /\ pc' = "ss_nonce"
    /\ site' = s
    /\ payload' = p

\* with open(wellknown_path, "w") as f: f.write(content)
WriteFile(fs, name, content) ==
    {f \in fs : f.name # name} \cup {[name |-> name, content |-> content]}

\* os.remove(wellknown_path)
RemoveFile(fs, name) == {f \in fs : f.name # name}

\* the answers urlopen(url, data) can meet at a call site
ChallengeLists(i) ==
    {<<[type |-> "dns-01", token |-> <<"a">>, uri |-> i]>>}
    \cup {<<[type |-> "dns-01", token |-> <<"a">>, uri |-> i],
            [type |-> "http-01", token |-> t, uri |-> i]>> : t \in Tokens}

OkStatus == {201, 202}
ErrorStatus == {400, 409}

PostAnswers(s, i) ==
    {[kind |-> "ok", status |-> st,
      body |-> [site |-> s, status |-> st, challenges |-> <<>>]] :
        st \in IF s = "new-authz" THEN OkStatus \ {201} ELSE OkStatus}
    \cup {[kind |-> "ok", status |-> 201,
           body |-> [site |-> s, status |-> 201, challenges |-> cl]] :
        cl \in IF s = "new-authz" THEN ChallengeLists(i) ELSE {}}
    \cup {[kind |-> "http_error", status |-> st,
           body |-> [site |-> s, status |-> st, challenges |-> <<>>]] :
        st \in ErrorStatus}
    \cup {[kind |-> "no_response", status |-> None,
           body |-> [site |-> s, status |-> None, challenges |-> <<>>]]}

ReturnSite(s) ==
    CASE s = "new-reg" -> "reg_ret"
      [] s = "new-authz" -> "authz_ret"
      [] s = "challenge" -> "trigger_ret"
      [] s = "new-cert" -> "cert_ret"

\* ------------------------------------------------------------- send_signed
\* mutant: protected = header, without the copy
HeaderAliased(hdr, prot) == prot

\* protected = copy.deepcopy(header): assigning protected["nonce"] leaves the
\* caller's header as it was
HeaderAfterCopy(hdr, prot) == hdr

\* mutant: the nonce of the previous request is kept and used again
NonceFetchCached ==
    /\ pc = "ss_nonce"
    /\ IF sent = <<>>
       THEN /\ caNonce' = caNonce + 1
            /\ nonceFetches' = nonceFetches + 1
            /\ protected' = ProtectedHeader(header, caNonce')
       ELSE /\ protected' = ProtectedHeader(header,
                    base64_dec(sent[Len(sent)].protected).nonce)
            /\ UNCHANGED <<caNonce, nonceFetches>>
    /\ transport' = [phase |-> "nonce", kind |-> "ok", status |-> 200]
    /\ pc' = "ss_post"
    /\ UNCHANGED <<domains, idx, header, thumb, site, payload, code, result,
                   challenge, token, keyauth, files, error, cert, regResults,
                   regCalls, sent, polls, sleeps, pendings, waited, overflow,
                   lastStatus, wrote, removed, resp_data, resp, cfg, checked>>

\* protected["nonce"] = urlopen(CA + "/directory").headers['Replay-Nonce'],
\* then the envelope is built and signed
NonceFetchOk ==
    /\ pc = "ss_nonce"
    /\ caNonce' = caNonce + 1
    /\ nonceFetches' = nonceFetches + 1
    /\ protected' = ProtectedHeader(header, caNonce')
    /\ transport' = [phase |-> "nonce", kind |-> "ok", status |-> 200]
    /\ pc' = "ss_post"
    /\ header' = HeaderAfterCopy(header, protected')
    /\ UNCHANGED <<domains, idx, thumb, site, payload, code, result,
                   challenge, token, keyauth, files, error, cert, regResults,
                   regCalls, sent, polls, sleeps, pendings, waited, overflow,
                   lastStatus, wrote, removed, resp_data, resp, cfg, checked>>

\* the urlopen of the nonce fetch is outside the try: an IOError leaves send_signed
NonceFetchFail(kind, st) ==
    /\ pc = "ss_nonce"
    /\ transport' = [phase |-> "nonce", kind |-> kind, status |-> st]
    /\ Raise("IOError", "urlopen", st, NoBody)
    /\ UNCHANGED <<domains, idx, header, thumb, site, payload, protected, code,
                   result, challenge, token, keyauth, files, cert, regResults,
                   regCalls, caNonce, nonceFetches, sent, polls, sleeps, pendings,
                   waited, overflow, lastStatus, wrote, removed,
                   resp_data, resp, cfg, checked>>

\* the envelope json.dumps({header, protected, payload, signature}) as POSTed
Envelope(hdr, prot, pl) ==
    [site |-> site, at |-> idx, header |-> hdr,
     protected |-> base64_enc(prot)]

\* history entry: the envelope POSTed and the status the POST met
Exchange(env, st) ==
    [site |-> env.site, at |-> env.at, header |-> env.header,
     protected |-> env.protected, status |-> st]

\* mutant: an IOError without a status is raised instead of returned
PostRaisesWithoutStatus(ans) ==
    /\ pc = "ss_post"
    /\ sent' = Append(sent, Exchange(Envelope(header, protected, payload), ans.status))
    /\ transport' = [phase |-> "post", kind |-> ans.kind, status |-> ans.status]
    /\ IF ans.kind = "no_response"
       THEN /\ Raise("IOError", "urlopen", None, NoBody)
            /\ UNCHANGED <<code, result>>
       ELSE /\ code' = ans.status
            /\ result' = ans.body
            /\ pc' = ReturnSite(site)
            /\ UNCHANGED error
    /\ protected' = NoHeader
    /\ payload' = NoPayload
    /\ UNCHANGED <<domains, idx, header, thumb, site, challenge, token, keyauth,
                   files, cert, regResults, regCalls, caNonce, nonceFetches,
                   polls, sleeps, pendings, waited, overflow, lastStatus, wrote,
                   removed, resp_data, resp, cfg, checked>>

\* resp = urlopen(url, data): return resp.getcode(), resp.read()
\* except IOError as e: return getattr(e, "code", None), getattr(e, "read", e.__str__)()
Post(ans) ==
    /\ pc = "ss_post"
    /\ sent' = Append(sent, Exchange(Envelope(header, protected, payload), ans.status))
    /\ transport' = [phase |-> "post", kind |-> ans.kind, status |-> ans.status]
    /\ code' = ans.status
    /\ result' = ans.body
    /\ pc' = ReturnSite(site)
    /\ protected' = NoHeader
    /\ payload' = NoPayload
    /\ UNCHANGED <<domains, idx, header, thumb, site, challenge, token, keyauth,
                   files, error, cert, regResults, regCalls, caNonce, nonceFetches,
                   polls, sleeps, pendings, waited, overflow, lastStatus, wrote,
                   removed, resp_data, resp, cfg, checked>>

\* -------------------------------------------------------- register_account
CallRegister ==
    /\ pc = "caller"
    /\ regCalls < MaxRegCalls
    /\ regCalls' = regCalls + 1
    /\ header' = acme_header(account_key)
    /\ BeginSendSigned("new-reg", [resource |-> "new-reg"])
    /\ UNCHANGED <<domains, idx, thumb, protected, code, result, challenge, token,
                   keyauth, files, error, cert, regResults, caNonce, nonceFetches,
                   sent, transport, polls, sleeps, pendings, waited, overflow,
                   lastStatus, wrote, removed, resp_data, resp, cfg, checked>>

\* mutant: only 201 is a success
RegisterOutcomeStrict(c) == IF c = 201 THEN "True" ELSE "raise"

\* if code == 201: return True / elif code == 409: return False / else: raise
RegisterOutcome(c) ==
    IF c = 201 THEN "True" ELSE IF c = 409 THEN "False" ELSE "raise"

RegisterReturn ==
    /\ pc = "reg_ret"
    /\ IF RegisterOutcome(code) = "raise"
       THEN /\ Raise("ValueError", "Error registering", code, result)
            /\ UNCHANGED regResults
       ELSE /\ regResults' = Append(regResults, <<code, RegisterOutcome(code)>>)
            /\ pc' = "caller"
            /\ UNCHANGED error
    /\ UNCHANGED <<domains, idx, header, thumb, site, payload, protected, code,
                   result, challenge, token, keyauth, files, cert, regCalls,
                   caNonce, nonceFetches, sent, transport, polls, sleeps, pendings,
                   waited, overflow, lastStatus, wrote, removed,
                   resp_data, resp, cfg, checked>>

\* -------------------------------------------------------- get_crt_from_csr
csr == "csr"

\* header = acme_header(account_key); account_thumbprint = ...
CallIssue ==
    /\ pc = "caller"
    /\ header' = acme_header(account_key)
    /\ thumb' = Thumbprint(header')
    /\ idx' = 1
    /\ pc' = "loop"
    /\ UNCHANGED <<domains, site, payload, protected, code, result, challenge,
                   token, keyauth, files, error, cert, regResults, regCalls,
                   caNonce, nonceFetches, sent, transport, polls, sleeps, pendings,
                   waited, overflow, lastStatus, wrote, removed,
                   resp_data, resp, cfg, checked>>

\* for domain in domains: send new-authz; after the loop: send new-cert
\* (polls, sleeps, pendings, waited count within one domain's while loop and
\* start at 0 for the next domain)
LoopHead ==
    /\ pc = "loop"
    /\ IF idx <= Len(domains)
       THEN BeginSendSigned("new-authz",
                [resource |-> "new-authz", identifier |-> domains[idx]])
       ELSE BeginSendSigned("new-cert",
                [resource |-> "new-cert", csr |-> base64_enc(csr)])
    /\ polls' = 0
    /\ sleeps' = 0
    /\ pendings' = 0
    /\ waited' = 0
    /\ overflow' = FALSE
    /\ UNCHANGED <<domains, idx, header, thumb, protected, code, result, challenge,
                   token, keyauth, files, error, cert, regResults, regCalls,
                   caNonce, nonceFetches, sent, transport, lastStatus, wrote,
                   removed, resp_data, resp, cfg, checked>>

\* mutant: the challenge type is not looked at
Http01Any(body) == body.challenges

\* [c for c in json.loads(result)['challenges'] if c['type'] == "http-01"]
Http01(body) == SelectSeq(body.challenges, LAMBDA c : c.type = "http-01")

\* mutant: the proof file holds the key authorization of the token as issued
AuthzReturnWritesRawToken ==
    /\ pc = "authz_ret"
    /\ IF code # 201
       THEN /\ Raise("ValueError", "Error requesting challenges", code, result)
            /\ UNCHANGED <<challenge, token, keyauth, files, wrote>>
       ELSE IF Http01(result) = <<>>
       THEN /\ Raise("IndexError", "list index out of range", None, NoBody)
            /\ UNCHANGED <<challenge, token, keyauth, files, wrote>>
       ELSE /\ challenge' = Http01(result)[1]
            /\ token' = Sanitize(challenge'.token)
            /\ keyauth' = KeyAuthorization(token', thumb)
            /\ files' = WriteFile(files, token', KeyAuthorization(challenge'.token, thumb))
            /\ wrote' = [wrote EXCEPT ![idx] = @ + 1]
            /\ pc' = "selfcheck"
            /\ UNCHANGED error
    /\ UNCHANGED <<domains, idx, header, thumb, site, payload, protected, code,
                   result, cert, regResults, regCalls, caNonce, nonceFetches, sent,
                   transport, polls, sleeps, pendings, waited, overflow, lastStatus,
                   removed, resp_data, resp, cfg, checked>>

\* mutant: a refused new-authz is asked again
AuthzReturnRetries ==
    /\ pc = "authz_ret"
    /\ IF code # 201
       THEN /\ pc' = "loop"
            /\ UNCHANGED <<challenge, token, keyauth, files, wrote, error>>
       ELSE IF Http01(result) = <<>>
       THEN /\ Raise("IndexError", "list index out of range", None, NoBody)
            /\ UNCHANGED <<challenge, token, keyauth, files, wrote>>
       ELSE /\ challenge' = Http01(result)[1]
            /\ token' = Sanitize(challenge'.token)
            /\ keyauth' = KeyAuthorization(token', thumb)
            /\ files' = WriteFile(files, token', keyauth')
            /\ wrote' = [wrote EXCEPT ![idx] = @ + 1]
            /\ pc' = "selfcheck"
            /\ UNCHANGED error
    /\ UNCHANGED <<domains, idx, header, thumb, site, payload, protected, code,
                   result, cert, regResults, regCalls, caNonce, nonceFetches, sent,
                   transport, polls, sleeps, pendings, waited, overflow, lastStatus,
                   removed, resp_data, resp, cfg, checked>>

\* if code != 201: raise; select the challenge ([0]); write the proof file
AuthzReturn ==
    /\ pc = "authz_ret"
    /\ IF code # 201
       THEN /\ Raise("ValueError", "Error requesting challenges", code, result)
            /\ UNCHANGED <<challenge, token, keyauth, files, wrote>>
       ELSE IF Http01(result) = <<>>
       THEN /\ Raise("IndexError", "list index out of range", None, NoBody)
            /\ UNCHANGED <<challenge, token, keyauth, files, wrote>>
       ELSE /\ challenge' = Http01(result)[1]
            /\ token' = Sanitize(challenge'.token)
            /\ keyauth' = KeyAuthorization(token', thumb)
            /\ files' = WriteFile(files, token', keyauth')
            /\ wrote' = [wrote EXCEPT ![idx] = @ + 1]
            /\ pc' = "selfcheck"
            /\ UNCHANGED error
    /\ UNCHANGED <<domains, idx, header, thumb, site, payload, protected, code,
                   result, cert, regResults, regCalls, caNonce, nonceFetches, sent,
                   transport, polls, sleeps, pendings, waited, overflow, lastStatus,
                   removed, resp_data, resp, cfg, checked>>

\* bodies the fetch of the well-known URL can return
FetchedBodies(ka) ==
    {ka, ka \o <<" ">>, <<" ">> \o ka, SubSeq(ka, 2, Len(ka)), ka \o <<"a">>}

\* mutant: the body is compared as fetched
SelfCheckExact(body, ka) == body = ka

\* resp_data = urlopen(wellknown_url).read().decode('utf8').strip()
\* assert resp_data == keyauthorization
SelfCheckPasses(body, ka) == Strip(body) = ka

\* mutant: a failed self-check raises without os.remove
SelfCheckFetchedKeepsFile(body) ==
    /\ pc = "selfcheck"
    /\ resp' = [url |-> "wellknown", body |-> body]
    /\ resp_data' = Strip(body)
    /\ IF SelfCheckPasses(body, keyauth)
       THEN /\ BeginSendSigned("challenge",
                   [resource |-> "challenge", keyAuthorization |-> keyauth])
            /\ checked' = [checked EXCEPT ![idx] = "pass"]
            /\ UNCHANGED error
       ELSE /\ checked' = [checked EXCEPT ![idx] = "mismatch"]
            /\ Raise("ValueError", "Wrote file to", None, NoBody)
            /\ UNCHANGED <<site, payload>>
    /\ UNCHANGED <<domains, idx, header, thumb, protected, code, result, challenge,
                   cfg,
                   token, keyauth, cert, regResults, regCalls, caNonce,
                   nonceFetches, sent, transport, polls, sleeps, pendings, waited,
                   overflow, lastStatus, wrote, files, removed>>

\* the fetch answered with `body`
SelfCheckFetched(body) ==
    /\ pc = "selfcheck"
    /\ resp' = [url |-> "wellknown", body |-> body]
    /\ resp_data' = Strip(body)
    /\ IF SelfCheckPasses(body, keyauth)
       THEN /\ BeginSendSigned("challenge",
                   [resource |-> "challenge", keyAuthorization |-> keyauth])
            /\ checked' = [checked EXCEPT ![idx] = "pass"]
            /\ UNCHANGED <<files, removed, error>>
       ELSE /\ files' = RemoveFile(files, token)
            /\ removed' = [removed EXCEPT ![idx] = @ + 1]
            /\ checked' = [checked EXCEPT ![idx] = "mismatch"]
            /\ Raise("ValueError", "Wrote file to", None, NoBody)
            /\ UNCHANGED <<site, payload>>
    /\ UNCHANGED <<domains, idx, header, thumb, protected, code, result, challenge,
                   cfg,
                   token, keyauth, cert, regResults, regCalls, caNonce,
                   nonceFetches, sent, transport, polls, sleeps, pendings, waited,
                   overflow, lastStatus, wrote>>

\* the fetch raised IOError: except (IOError, AssertionError): os.remove; raise
SelfCheckIOError ==
    /\ pc = "selfcheck"
    /\ files' = RemoveFile(files, token)
    /\ removed' = [removed EXCEPT ![idx] = @ + 1]
    /\ checked' = [checked EXCEPT ![idx] = "ioerror"]
    /\ Raise("ValueError", "Wrote file to", None, NoBody)
    /\ UNCHANGED <<domains, idx, header, thumb, site, payload, protected, code,
                   result, challenge, token, keyauth, cert, regResults, regCalls,
                   caNonce, nonceFetches, sent, transport, polls, sleeps, pendings,
                   waited, overflow, lastStatus, wrote, resp_data, resp, cfg>>

\* mutant: the polling starts whatever the trigger was answered
TriggerReturnIgnoresStatus ==
    /\ pc = "trigger_ret"
    /\ pc' = "poll"
    /\ UNCHANGED error
    /\ UNCHANGED <<domains, idx, header, thumb, site, payload, protected, code,
                   result, challenge, token, keyauth, files, cert, regResults,
                   regCalls, caNonce, nonceFetches, sent, transport, polls, sleeps,
                   pendings, waited, overflow, lastStatus, wrote, removed,
                   resp_data, resp, cfg, checked>>

\* mutant: a refused trigger removes the proof file before raising
TriggerReturnCleansUp ==
    /\ pc = "trigger_ret"
    /\ IF code # 202
       THEN /\ Raise("ValueError", "Error triggering challenge", code, result)
            /\ files' = RemoveFile(files, token)
            /\ removed' = [removed EXCEPT ![idx] = @ + 1]
       ELSE pc' = "poll" /\ UNCHANGED <<error, files, removed>>
    /\ UNCHANGED <<domains, idx, header, thumb, site, payload, protected, code,
                   result, challenge, token, keyauth, cert, regResults,
                   regCalls, caNonce, nonceFetches, sent, transport, polls, sleeps,
                   pendings, waited, overflow, lastStatus, wrote,
                   resp_data, resp, cfg, checked>>

\* if code != 202: raise ValueError("Error triggering challenge ...")
TriggerReturn ==
    /\ pc = "trigger_ret"
    /\ IF code # 202
       THEN Raise("ValueError", "Error triggering challenge", code, result)
       ELSE pc' = "poll" /\ UNCHANGED error
    /\ UNCHANGED <<domains, idx, header, thumb, site, payload, protected, code,
                   result, challenge, token, keyauth, files, cert, regResults,
                   regCalls, caNonce, nonceFetches, sent, transport, polls, sleeps,
                   pendings, waited, overflow, lastStatus, wrote, removed,
                   resp_data, resp, cfg, checked>>

\* a counter of the polling loop: exact until the position overflowed
Count(n) == IF overflow THEN n ELSE n + 1

\* statuses of a challenge other than pending and valid
OtherStatus == {"invalid", "unknown"}

\* challenge_status = json.loads(urlopen(challenge['uri']).read())
ChallengeStatus(st) == [status |-> st, uri |-> challenge.uri]

\* mutant: the loop gives up after MaxPending pending answers
PollPendingCapped ==
    /\ pc = "poll"
    /\ resp' = [url |-> "challenge", body |-> <<"pending">>]
    /\ lastStatus' = [lastStatus EXCEPT ![idx] = "pending"]
    /\ IF pendings >= MaxPending
       THEN /\ Raise("ValueError", "challenge still pending", None, NoBody)
            /\ UNCHANGED <<polls, pendings, overflow>>
       ELSE /\ polls' = Count(polls)
            /\ pendings' = Count(pendings)
            /\ pc' = "sleep"
            /\ UNCHANGED <<overflow, error>>
    /\ UNCHANGED <<domains, idx, header, thumb, site, payload, protected, code,
                   result, challenge, token, keyauth, files, cert, regResults,
                   regCalls, caNonce, nonceFetches, sent, transport, sleeps,
                   waited, wrote, removed, resp_data, cfg, checked>>

\* mutant: a pending answer is followed by the next poll at once
PollPendingNoSleep ==
    /\ pc = "poll"
    /\ resp' = [url |-> "challenge", body |-> <<"pending">>]
    /\ IF pendings >= MaxPending
       THEN /\ overflow' = TRUE
            /\ UNCHANGED <<polls, pendings>>
       ELSE /\ polls' = Count(polls)
            /\ pendings' = Count(pendings)
            /\ UNCHANGED overflow
    /\ lastStatus' = [lastStatus EXCEPT ![idx] = "pending"]
    /\ pc' = "poll"
    /\ UNCHANGED <<domains, idx, header, thumb, site, payload, protected, code,
                   result, challenge, token, keyauth, files, error, cert,
                   regResults, regCalls, caNonce, nonceFetches, sent, transport,
                   sleeps, waited, wrote, removed, resp_data, cfg, checked>>

\* status "pending": time.sleep(2) comes next, then the next poll
PollPending ==
    /\ pc = "poll"
    /\ resp' = [url |-> "challenge", body |-> <<"pending">>]
    /\ IF pendings >= MaxPending
       THEN /\ overflow' = TRUE
            /\ UNCHANGED <<polls, pendings>>
       ELSE /\ polls' = Count(polls)
            /\ pendings' = Count(pendings)
            /\ UNCHANGED overflow
    /\ lastStatus' = [lastStatus EXCEPT ![idx] = "pending"]
    /\ pc' = "sleep"
    /\ UNCHANGED <<domains, idx, header, thumb, site, payload, protected, code,
                   result, challenge, token, keyauth, files, error, cert,
                   regResults, regCalls, caNonce, nonceFetches, sent, transport,
                   sleeps, waited, wrote, removed, resp_data, cfg, checked>>

\* time.sleep(2)
Sleep ==
    /\ pc = "sleep"
    /\ sleeps' = Count(sleeps)
    /\ waited' = IF overflow THEN waited ELSE waited + SleepInterval
    /\ pc' = "poll"
    /\ UNCHANGED <<domains, idx, header, thumb, site, payload, protected, code,
                   result, challenge, token, keyauth, files, error, cert,
                   regResults, regCalls, caNonce, nonceFetches, sent, transport,
                   polls, pendings, overflow, lastStatus, wrote, removed,
                   resp_data, resp, cfg, checked>>

\* status "valid": os.remove(wellknown_path); break
\* mutant: a validated domain leaves its proof file behind
PollValidKeepsFile ==
    /\ pc = "poll"
    /\ resp' = [url |-> "challenge", body |-> <<"valid">>]
    /\ polls' = Count(polls)
    /\ lastStatus' = [lastStatus EXCEPT ![idx] = "valid"]
    /\ idx' = idx + 1
    /\ challenge' = NoChallenge
    /\ token' = <<>>
    /\ keyauth' = <<>>
    /\ pc' = "loop"
    /\ resp_data' = <<>>
    /\ UNCHANGED <<domains, header, thumb, site, payload, protected, code, result,
                   error, cert, regResults, regCalls, caNonce, nonceFetches, sent,
                   transport, sleeps, pendings, waited, overflow, wrote, checked, cfg,
                   files, removed>>

\* (challenge, token and keyauthorization are assigned anew before the next
\* iteration reads them: they leave the state here)
PollValid ==
    /\ pc = "poll"
    /\ resp' = [url |-> "challenge", body |-> <<"valid">>]
    /\ polls' = Count(polls)
    /\ lastStatus' = [lastStatus EXCEPT ![idx] = "valid"]
    /\ files' = RemoveFile(files, token)
    /\ removed' = [removed EXCEPT ![idx] = @ + 1]
    /\ idx' = idx + 1
    /\ challenge' = NoChallenge
    /\ token' = <<>>
    /\ keyauth' = <<>>
    /\ pc' = "loop"
    /\ resp_data' = <<>>
    /\ UNCHANGED <<domains, header, thumb, site, payload, protected, code, result,
                   error, cert, regResults, regCalls, caNonce, nonceFetches, sent,
                   transport, sleeps, pendings, waited, overflow, wrote, checked, cfg>>

\* mutant: a status that is neither pending nor valid ends the loop like valid
PollOtherBreaks(st) ==
    /\ pc = "poll"
    /\ resp' = [url |-> "challenge", body |-> <<st>>]
    /\ polls' = Count(polls)
    /\ lastStatus' = [lastStatus EXCEPT ![idx] = st]
    /\ idx' = idx + 1
    /\ pc' = "loop"
    /\ UNCHANGED <<domains, header, thumb, site, payload, protected, code, result,
                   challenge, token, keyauth, files, error, cert, regResults,
                   regCalls, caNonce, nonceFetches, sent, transport, sleeps,
                   pendings, waited, overflow, wrote, removed, resp_data, cfg, checked>>

\* mutant: the proof file is removed before the failure is raised
PollOtherCleansUp(st) ==
    /\ pc = "poll"
    /\ resp' = [url |-> "challenge", body |-> <<st>>]
    /\ polls' = Count(polls)
    /\ lastStatus' = [lastStatus EXCEPT ![idx] = st]
    /\ files' = RemoveFile(files, token)
    /\ removed' = [removed EXCEPT ![idx] = @ + 1]
    /\ Raise("ValueError", "challenge did not pass", None, ChallengeStatus(st))
    /\ UNCHANGED <<domains, idx, header, thumb, site, payload, protected, code,
                   result, challenge, token, keyauth, cert, regResults, regCalls,
                   caNonce, nonceFetches, sent, transport, sleeps, pendings,
                   waited, overflow, wrote, resp_data, cfg, checked>>

\* any other status: raise ValueError("{0} challenge did not pass: {1}")
PollOther(st) ==
    /\ pc = "poll"
    /\ resp' = [url |-> "challenge", body |-> <<st>>]
    /\ polls' = Count(polls)
    /\ lastStatus' = [lastStatus EXCEPT ![idx] = st]
    /\ Raise("ValueError", "challenge did not pass", None, ChallengeStatus(st))
    /\ UNCHANGED <<domains, idx, header, thumb, site, payload, protected, code,
                   result, challenge, token, keyauth, files, cert, regResults,
                   regCalls, caNonce, nonceFetches, sent, transport, sleeps,
                   pendings, waited, overflow, wrote, removed, resp_data, cfg, checked>>

\* except IOError as e: raise ValueError("Error checking challenge: e.code, e.read()")
PollHTTPError(st) ==
    /\ pc = "poll"
    /\ polls' = Count(polls)
    /\ lastStatus' = [lastStatus EXCEPT ![idx] = "http_error"]
    /\ Raise("ValueError", "Error checking challenge", st,
             [site |-> "poll", status |-> st, challenges |-> <<>>])
    /\ UNCHANGED <<domains, idx, header, thumb, site, payload, protected, code,
                   result, challenge, token, keyauth, files, cert, regResults,
                   regCalls, caNonce, nonceFetches, sent, transport, sleeps,
                   pendings, waited, overflow, wrote, removed,
                   resp_data, resp, cfg, checked>>

\* an IOError without .code (URLError): e.code in the handler raises AttributeError
PollNoResponse ==
    /\ pc = "poll"
    /\ polls' = Count(polls)
    /\ lastStatus' = [lastStatus EXCEPT ![idx] = "no_response"]
    /\ Raise("AttributeError", "code", None, NoBody)
    /\ UNCHANGED <<domains, idx, header, thumb, site, payload, protected, code,
                   result, challenge, token, keyauth, files, cert, regResults,
                   regCalls, caNonce, nonceFetches, sent, transport, sleeps,
                   pendings, waited, overflow, wrote, removed,
                   resp_data, resp, cfg, checked>>

\* crypto.load_certificate(crypto.FILETYPE_ASN1, result)
load_certificate(body) == <<"cert", body>>

\* if code != 201: raise ValueError("Error signing certificate"); return cert
CertReturn ==
    /\ pc = "cert_ret"
    /\ IF code # 201
       THEN Raise("ValueError", "Error signing certificate", code, result)
            /\ UNCHANGED cert
       ELSE /\ cert' = load_certificate(result)
            /\ pc' = "done"
            /\ UNCHANGED error
    /\ UNCHANGED <<domains, idx, header, thumb, site, payload, protected, code,
                   result, challenge, token, keyauth, files, regResults, regCalls,
                   caNonce, nonceFetches, sent, transport, polls, sleeps, pendings,
                   waited, overflow, lastStatus, wrote, removed,
                   resp_data, resp, cfg, checked>>

\* ----------------------------------------------------------- specification
Next ==
    \/ CallRegister
    \/ NonceFetchOk
    \/ \E st \in ErrorStatus : NonceFetchFail("http_error", st)
    \/ NonceFetchFail("no_response", None)
    \/ \E ans \in PostAnswers(site, idx) : Post(ans)
    \/ RegisterReturn
    \/ CallIssue
    \/ LoopHead
    \/ AuthzReturn
    \/ \E body \in FetchedBodies(keyauth) : SelfCheckFetched(body)
    \/ SelfCheckIOError
    \/ TriggerReturn
    \/ PollPending
    \/ Sleep
    \/ PollValid
    \/ \E st \in OtherStatus : PollOther(st)
    \/ \E st \in ErrorStatus : PollHTTPError(st)
    \/ PollNoResponse
    \/ CertReturn

Spec == Init /\ [][Next]_vars

\* the ways a status GET ends the polling loop
PollNonPending ==
    \/ PollValid
    \/ \E st \in OtherStatus : PollOther(st)
    \/ \E st \in ErrorStatus : PollHTTPError(st)
    \/ PollNoResponse

\* every blocking call returns and the run takes its next step (WF); a polled
\* challenge is eventually answered with something else than pending (SF)
LiveSpec == Spec /\ WF_vars(Next) /\ SF_vars(PollNonPending)

\* ----------------------------------------------- acertmgr/configuration
\* values of the configuration: text is a sequence of pieces (a piece that
\* is a setting's name stands for that name occurring in the text)
StrV(s) == [kind |-> "str", val |-> s]
IntV(s) == [kind |-> "int", val |-> s]
ListV(l) == [kind |-> "list", val |-> l]
DictV(d) == [kind |-> "dict", items |-> d]
Unset == [kind |-> "unset", val |-> <<>>]

DEFAULT_KEY_LENGTH == IntV(<<"4096">>)
DEFAULT_TTL == IntV(<<"15">>)
DEFAULT_API == StrV(<<"v1">>)
DEFAULT_AUTHORITY == StrV(<<"https://acme-v01.api.letsencrypt.org">>)
DEFAULT_AUTHORITY_AGREEMENT == StrV(<<"https://letsencrypt.org/documents/LE-SA.pdf">>)
work_dir == StrV(<<"/etc/acertmgr">>)

\* the settings parse_config_entry resolves, in the order of its calls
Names == <<"api", "authority", "authority_agreement", "account_key", "cert_dir",
           "ttl_days", "cert_file", "key_file", "key_length">>
ConfigKeys == {Names[k] : k \in DOMAIN Names} \cup {"ca_file", "static_ca"}

\* the first element of a configuration entry: the domains, space separated
DomainStrings ==
    {<<"example.com">>,
     <<"api", ".example.com">>,
     <<"example.com", " ", "ttl_days", ".example.com">>,
     <<"key_length", ".example.com", " ", "ca_file", ".example.com">>}

\* the second element: the list of the entry's dicts
DataLists ==
    {<<>>,
     <<DictV([api |-> StrV(<<"v2">>)])>>,
     <<DictV([path |-> StrV(<<"/tmp/crt">>)]),
       DictV([ttl_days |-> IntV(<<"30">>), cert_dir |-> StrV(<<"/srv">>)])>>,
     <<DictV([key_length |-> IntV(<<"2048">>)]), DictV([ca_file |-> StrV(<<"/srv/ca">>)])>>}

Entries == {<<StrV(d), ListV(l)>> : d \in DomainStrings, l \in DataLists}

GlobalConfigs ==
    {[defaults |-> DictV([user |-> StrV(<<"root">>)])],
     [api |-> StrV(<<"v2g">>), ttl_days |-> IntV(<<"60">>)],
     [server_cert |-> StrV(<<"/etc/ssl/server.crt">>),
      server_ca |-> StrV(<<"/etc/ssl/ca.crt">>),
      key_length |-> IntV(<<"2048">>)]}

\* `name in x`: substring of a str, element of a list, key of a dict
Contains(name, x) ==
    CASE x.kind = "str" -> \E j \in DOMAIN x.val : x.val[j] = name
      [] x.kind = "list" ->
            \E j \in DOMAIN x.val : x.val[j].kind = "str" /\ x.val[j].val = <<name>>
      [] x.kind = "dict" -> name \in DOMAIN x.items
      [] OTHER -> FALSE

\* dict.get(name, default)
Get(d, name, default) == IF name \in DOMAIN d THEN d[name] ELSE default

\* os.path.join(a, b)
PathJoin(a, b) == StrV(a.val \o <<"/">> \o b)

\* hashlib.md5(config['domains']).hexdigest()
Id(domainsv) == <<"md5">> \o domainsv.val

\* values = [x for x in localconfig if name in x]
\* config[name] = values[0] if len(values) > 0 else globalconfig.get(name, default)
update_config_value(config, name, localconfig, globalconfig, default) ==
    LET values == SelectSeq(localconfig, LAMBDA x : Contains(name, x))
    IN  [config EXCEPT ![name] = IF Len(values) > 0
                                 THEN values[1]
                                 ELSE Get(globalconfig, name, default)]

\* the default argument of each update_config_value call of parse_config_entry
DefaultOf(name, config, entry, globalconfig) ==
    CASE name = "api" -> DEFAULT_API
      [] name = "authority" -> DEFAULT_AUTHORITY
      [] name = "authority_agreement" -> DEFAULT_AUTHORITY_AGREEMENT
      [] name = "account_key" -> PathJoin(work_dir, <<"account.key">>)
      [] name = "cert_dir" -> work_dir
      [] name = "ttl_days" -> DEFAULT_TTL
      [] name = "cert_file" ->
            Get(globalconfig, "server_cert",
                PathJoin(config["cert_dir"], Id(entry[1]) \o <<".crt">>))
      [] name = "key_file" ->
            Get(globalconfig, "server_key",
                PathJoin(config["cert_dir"], Id(entry[1]) \o <<".key">>))
      [] OTHER -> DEFAULT_KEY_LENGTH

\* int(x): of an int, or of text that is a number
IntOk(v) == v.kind = "int" \/ (v.kind = "str" /\ v.val \in {<<"2048">>, <<"4096">>})

\* parse_config_entry(entry, globalconfig, work_dir) is called
ConfigInit ==
    /\ Idle
    /\ domains = <<>>
    /\ cfg \in {[step |-> 1, at |-> "update", entry |-> e, globalconfig |-> g,
                 config |-> [n \in ConfigKeys |-> Unset]] :
                    e \in Entries, g \in GlobalConfigs}

RunUnchanged ==
    UNCHANGED <<pc, domains, idx, header, thumb, site, payload, protected, code,
                result, challenge, token, keyauth, files, error, cert, regResults,
                regCalls, caNonce, nonceFetches, sent, transport, polls, sleeps,
                pendings, waited, overflow, lastStatus, wrote, removed, resp_data,
                resp, checked>>

\* the next update_config_value(config, name, entry, globalconfig, default)
UpdateConfigValue ==
    /\ cfg.step >= 1
    /\ cfg.at = "update"
    /\ cfg.step <= Len(Names)
    /\ LET name == Names[cfg.step]
       IN  cfg' = [cfg EXCEPT
                     !.config = update_config_value(cfg.config, name, cfg.entry,
                                    cfg.globalconfig,
                                    DefaultOf(name, cfg.config, cfg.entry,
                                              cfg.globalconfig)),
                     !.step = @ + 1,
                     !.at = IF name = "key_length" THEN "int" ELSE "update"]
    /\ RunUnchanged

\* config['key_length'] = int(config['key_length'])
KeyLengthInt ==
    /\ cfg.step >= 1
    /\ cfg.at = "int"
    /\ IF IntOk(cfg.config["key_length"])
       THEN cfg' = [cfg EXCEPT !.config["key_length"] = IntV(@.val), !.at = "ca_file"]
       ELSE cfg' = [cfg EXCEPT !.at = "failed"]
    /\ RunUnchanged

\* ca_files = [x for x in entry if 'ca_file' in x] ... elif 'server_ca' in globalconfig
CaFile ==
    /\ cfg.step >= 1
    /\ cfg.at = "ca_file"
    /\ LET ca_files == SelectSeq(cfg.entry, LAMBDA x : Contains("ca_file", x))
       IN  cfg' = [cfg EXCEPT
                     !.at = "parsed",
                     !.config["static_ca"] =
                         StrV(<<IF Len(ca_files) > 0 \/ "server_ca" \in DOMAIN cfg.globalconfig
                                THEN "True" ELSE "False">>),
                     !.config["ca_file"] =
                         IF Len(ca_files) > 0 THEN ca_files[1]
                         ELSE Get(cfg.globalconfig, "server_ca",
                                  PathJoin(cfg.config["cert_dir"],
                                           Id(cfg.entry[1]) \o <<".ca">>))]
    /\ RunUnchanged

ConfigNext == UpdateConfigValue \/ KeyLengthInt \/ CaFile

ConfigSpec == ConfigInit /\ [][ConfigNext]_vars

\* ------------------------------------------------- the caller of a run
\* (the program that calls register_account and get_crt_from_csr is described
\* by the specification only: it registers once, then issues)
OrchRegister == regCalls = 0 /\ CallRegister

\* mutant: issuance does not wait for a registration
OrchIssueUnregistered == CallIssue

OrchIssue == Len(regResults) = 1 /\ CallIssue

OrchNext ==
    \/ OrchRegister
    \/ NonceFetchOk
    \/ \E st \in ErrorStatus : NonceFetchFail("http_error", st)
    \/ NonceFetchFail("no_response", None)
    \/ \E ans \in PostAnswers(site, idx) : Post(ans)
    \/ RegisterReturn
    \/ OrchIssue
    \/ LoopHead
    \/ AuthzReturn
    \/ \E body \in FetchedBodies(keyauth) : SelfCheckFetched(body)
    \/ SelfCheckIOError
    \/ TriggerReturn
    \/ PollPending
    \/ Sleep
    \/ PollValid
    \/ \E st \in OtherStatus : PollOther(st)
    \/ \E st \in ErrorStatus : PollHTTPError(st)
    \/ PollNoResponse
    \/ CertReturn

OrchSpec == Init /\ [][OrchNext]_vars

\* ------------------------------------------------------------------ claims
Terminated == pc \in {"done", "failed"}
NewCertSent == \E k \in DOMAIN sent : sent[k].site = "new-cert"
AuthzSentAt(i) == \E k \in DOMAIN sent : sent[k].site = "new-authz" /\ sent[k].at = i
TriggerSentAt(i) == \E k \in DOMAIN sent : sent[k].site = "challenge" /\ sent[k].at = i
FileExists(name) == \E f \in files : f.name = name

\* C1: new-cert is sent, and a certificate returned, only when every domain of
\* the list has been read with challenge status valid.
C1_IssueOnlyAfterAllValid ==
    (NewCertSent \/ site = "new-cert" \/ cert # NoCert)
        => \A i \in 1..Len(domains) : lastStatus[i] = "valid"

C1_Witness == pc = "done" /\ cert # NoCert /\ Len(domains) >= 2 /\ NewCertSent

\* C2: domains are validated one after another in input order; a failure at
\* domain i ends the run with the error of domain i, and nothing (new-authz,
\* proof file, trigger, poll) is ever done for a later domain.
C2_InOrder ==
    /\ \A k \in DOMAIN sent : sent[k].at <= idx
    /\ \A k, l \in DOMAIN sent : k < l => sent[k].at <= sent[l].at
    /\ \A j \in Positions :
        /\ j > idx => /\ wrote[j] = 0
                      /\ checked[j] = "none"
                      /\ lastStatus[j] = "none"
                      /\ ~AuthzSentAt(j)
                      /\ ~TriggerSentAt(j)
        /\ j < idx => lastStatus[j] = "valid"
    /\ error.type # "none" => pc = "failed" /\ error.at = idx
    /\ pc = "failed" => error.type # "none"

C2_AbortStep ==
    pc = "failed" => /\ pc' = "failed"
                     /\ UNCHANGED <<idx, sent, wrote, removed, polls, files, error>>

C2_SequentialFirstFailureAborts == []C2_InOrder /\ [][C2_AbortStep]_vars

C2_Witness ==
    /\ pc = "failed"
    /\ Len(domains) >= 2
    /\ idx = 1
    /\ lastStatus[1] = "invalid"
    /\ error.msg = "challenge did not pass"
    /\ ~AuthzSentAt(2)

C4_PollCounts ==
    ~overflow =>
        /\ pc = "poll" => /\ polls = pendings
                          /\ sleeps = pendings
                          /\ waited = SleepInterval * pendings
        /\ pc = "sleep" => /\ polls = pendings
                           /\ sleeps = pendings - 1
                           /\ lastStatus[idx] = "pending"
        /\ (pc = "loop" /\ idx > 1) =>
              /\ lastStatus[idx - 1] = "valid"
              /\ polls = pendings + 1
              /\ sleeps = pendings
              /\ waited = SleepInterval * pendings
              /\ wrote[idx - 1] = 1
              /\ removed[idx - 1] = 1
              /\ files = {}

C4_Witness ==
    /\ pc = "loop"
    /\ idx > 1
    /\ ~overflow
    /\ pendings = 2
    /\ polls = 3
    /\ sleeps = 2

\* C5: a status that is neither pending nor valid ends the run at once with
\* the ValueError "... challenge did not pass: <status payload>": that GET is
\* the last one, the proof file stays, and new-cert is never sent.
C5_OtherStatusFails ==
    \A i \in Positions :
        lastStatus[i] \in OtherStatus =>
            /\ i = idx
            /\ pc = "failed"
            /\ error.type = "ValueError"
            /\ error.msg = "challenge did not pass"
            /\ error.at = i
            /\ error.body = [status |-> lastStatus[i], uri |-> challenge.uri]
            /\ challenge.uri = i
            /\ ~overflow => polls = pendings + 1
            /\ files = {[name |-> token, content |-> keyauth]}
            /\ removed[i] = 0
            /\ ~NewCertSent
            /\ cert = NoCert

C5_Witness ==
    /\ idx \in Positions
    /\ lastStatus[idx] = "unknown"
    /\ pendings >= 1
    /\ pc = "failed"
    /\ files # {}

\* C6: the polling loop has no cap: a pending answer, however many came
\* before, is followed by the sleep and the sleep by the next GET; and when
\* every call returns and each polled challenge is eventually answered with
\* another status, the run ends (certificate or failure).
C6_PendingStep ==
    (pc = "poll" /\ lastStatus'[idx] = "pending") =>
        (pc' = "sleep" /\ error' = error /\ idx' = idx)

C6_SleepStep == pc = "sleep" => (pc' = "poll" /\ idx' = idx /\ error' = error)

C6_NoCapButTerminates ==
    /\ [][C6_PendingStep]_vars
    /\ [][C6_SleepStep]_vars
    /\ <>Terminated

C6_Witness == pc = "poll" /\ overflow /\ pendings = MaxPending

\* C7: register_account returns True on 201 and False on 409 and raises the
\* ValueError "Error registering: <status> <body>" on every other status; two
\* calls answered 201 and 409 give True then False.
C7_RegisterMapping ==
    /\ \A k \in DOMAIN regResults :
          regResults[k] \in {<<201, "True">>, <<409, "False">>}
    /\ (pc \in {"caller", "failed"} /\ regCalls >= 1
            /\ site = "new-reg" /\ transport.phase = "post") =>
          /\ code = 201 => /\ pc = "caller"
                           /\ Len(regResults) = regCalls
                           /\ regResults[regCalls] = <<201, "True">>
          /\ code = 409 => /\ pc = "caller"
                           /\ Len(regResults) = regCalls
                           /\ regResults[regCalls] = <<409, "False">>
          /\ code \notin {201, 409} =>
                           /\ pc = "failed"
                           /\ Len(regResults) = regCalls - 1
                           /\ error.type = "ValueError"
                           /\ error.msg = "Error registering"
                           /\ error.code = transport.status
                           /\ error.body = result
                           /\ result.status = transport.status
                           /\ result.site = "new-reg"
    /\ error.msg = "Error registering" => error.code \notin {201, 409}

C7_Witness ==
    /\ pc = "caller"
    /\ regResults = <<(<<201, "True">>), (<<409, "False">>)>>

\* C8 as stated: every error with a status is returned by send_signed as
\* (status, body), and one without a status is raised, at the nonce fetch and
\* at the POST alike.
SendSignedRaised == pc = "failed" /\ error.type = "IOError"

C8_ErrorsReturnedUnlessNoStatus ==
    /\ transport.kind = "http_error" => ~SendSignedRaised
    /\ transport.kind = "no_response" => SendSignedRaised

\* C8 amended: an IOError of the POST is returned as (status, body), with
\* status None when there was no response; an IOError of the nonce fetch, with
\* or without a status, leaves send_signed as an exception before any POST.
C8_PostReturnsNonceFetchRaises ==
    /\ transport.phase = "post" =>
          /\ error.type # "IOError"
          /\ code = transport.status
          /\ result.status = transport.status
          /\ transport.kind = "no_response" => code = None
    /\ (transport.phase = "nonce" /\ transport.kind # "ok") =>
          /\ SendSignedRaised
          /\ error.code = transport.status
          /\ Len(sent) = nonceFetches
    /\ error.type = "IOError" =>
          (transport.phase = "nonce" /\ transport.kind # "ok")

C8_Witness ==
    /\ transport = [phase |-> "post", kind |-> "no_response", status |-> None]
    /\ pc = "authz_ret"
    /\ code = None
    /\ error = NoError

\* C9: every signed POST carries the nonce fetched by its own send_signed
\* call right before it: nonces obtained and POSTs made go one to one, no
\* nonce is held between calls, and no two envelopes share a nonce.
NonceOf(k) == base64_dec(sent[k].protected).nonce

C9_NoncePerRequest ==
    /\ nonceFetches = Len(sent) + (IF pc = "ss_post" THEN 1 ELSE 0)
    /\ Terminated => nonceFetches = Len(sent)
    /\ \A k \in DOMAIN sent : NonceOf(k) = k
    /\ \A k, l \in DOMAIN sent : k # l => NonceOf(k) # NonceOf(l)
    /\ pc = "ss_post" => protected.nonce = caNonce /\ caNonce = Len(sent) + 1
    /\ pc # "ss_post" => protected = NoHeader

C9_Witness ==
    /\ pc = "done"
    /\ Len(sent) >= 6
    /\ nonceFetches = Len(sent)

\* C10: send_signed leaves the header it is given as it is: every envelope
\* carries the {alg, jwk} header of the account key, and the protected
\* headers of the signed requests are that header plus a nonce.
ProtectedOf(k) == base64_dec(sent[k].protected)

C10_HeaderUnchanged ==
    /\ header \in {NoHeader, acme_header(account_key)}
    /\ \A k \in DOMAIN sent :
          /\ sent[k].header = acme_header(account_key)
          /\ DOMAIN ProtectedOf(k) = DOMAIN sent[k].header \cup {"nonce"}
          /\ \A f \in DOMAIN sent[k].header : ProtectedOf(k)[f] = sent[k].header[f]
    /\ \A k \in DOMAIN sent :
          /\ DOMAIN ProtectedOf(k) = DOMAIN ProtectedOf(1)
          /\ \A f \in DOMAIN ProtectedOf(k) \ {"nonce"} :
                ProtectedOf(k)[f] = ProtectedOf(1)[f]
    /\ pc = "ss_post" => /\ header = acme_header(account_key)
                         /\ protected = ProtectedHeader(header, caNonce)

C10_Witness ==
    /\ pc = "done"
    /\ Len(sent) >= 4
    /\ sent[1].site = "new-reg"
    /\ sent[Len(sent)].site = "new-cert"
    /\ header = acme_header(account_key)

\* ----------------------------------------------------------- C11 .. C20
HasHttp01(body) ==
    \E k \in DOMAIN body.challenges : body.challenges[k].type = "http-01"
AnsweredAt(s, i, st) ==
    \E k \in DOMAIN sent : sent[k].site = s /\ sent[k].at = i /\ sent[k].status = st
NothingDoneFor(i) ==
    /\ wrote[i] = 0
    /\ checked[i] = "none"
    /\ ~TriggerSentAt(i)
    /\ lastStatus[i] = "none"
    /\ files = {}
AfterAuthzAnswer ==
    site = "new-authz" /\ transport.phase = "post" /\ pc \in {"selfcheck", "failed"}

\* C11: a new-authz answer other than 201 ends the run with the error
\* "Error requesting challenges" (the AuthorizationError) carrying status and
\* body; a 201 answer without an http-01 challenge ends it with the IndexError
\* of the empty selection (the UnsupportedChallengeError); in both cases no
\* proof file was written and no trigger or poll was made for the domain.
C11_AuthzFailure ==
    /\ AfterAuthzAnswer =>
        /\ code # 201 =>
            /\ pc = "failed"
            /\ error = [type |-> "ValueError", msg |-> "Error requesting challenges",
                        code |-> code, body |-> result, at |-> idx]
            /\ NothingDoneFor(idx) /\ polls = 0
        /\ (code = 201 /\ ~HasHttp01(result)) =>
            /\ pc = "failed"
            /\ error.type = "IndexError" /\ error.at = idx
            /\ NothingDoneFor(idx) /\ polls = 0
        /\ (code = 201 /\ HasHttp01(result)) => wrote[idx] = 1
    /\ error.msg \in {"Error requesting challenges", "list index out of range"} =>
        AfterAuthzAnswer /\ pc = "failed"

C11_Witness ==
    /\ pc = "failed"
    /\ error.type = "IndexError"
    /\ code = 201
    /\ result.challenges # <<>>
    /\ files = {}

IssuedKeyAuthorization == challenge.token \o <<".">> \o thumb
SendingTrigger == site = "challenge" /\ pc \in {"ss_nonce", "ss_post"}
TheProofFile == [name |-> token, content |-> keyauth]
FileInPlace == idx \in Positions /\ wrote[idx] = 1 /\ removed[idx] = 0

\* C12 as stated: file content, expected body and the keyAuthorization of the
\* trigger are the issued token, '.', thumbprint, whatever the token.
C12_KeyAuthOfIssuedToken ==
    challenge # NoChallenge =>
        /\ keyauth = IssuedKeyAuthorization
        /\ FileInPlace => files = {[name |-> token, content |-> IssuedKeyAuthorization]}
        /\ SendingTrigger => payload.keyAuthorization = IssuedKeyAuthorization

\* C12 amended: file content, expected body and the keyAuthorization of the
\* trigger are one string, the file name (the token after the replacement of
\* its unsafe characters), '.', thumbprint; it is the issued token's key
\* authorization exactly when the issued token has no unsafe character.
C12_KeyAuthOfSanitizedToken ==
    challenge # NoChallenge =>
        /\ keyauth = token \o <<".">> \o thumb
        /\ FileInPlace => files = {TheProofFile}
        /\ \A f \in files : f = TheProofFile
        /\ (idx \in Positions /\ checked[idx] = "pass") => resp_data = keyauth
        /\ SendingTrigger =>
              payload = [resource |-> "challenge", keyAuthorization |-> keyauth]
        /\ keyauth = IssuedKeyAuthorization
              <=> \A j \in DOMAIN challenge.token : challenge.token[j] \in SafeChars

C12_Witness ==
    /\ SendingTrigger
    /\ pc = "ss_post"
    /\ challenge.token # token
    /\ payload.keyAuthorization = keyauth
    /\ files = {TheProofFile}

\* C13: a proof file name has only characters of [A-Za-z0-9_-] (so no path
\* separator: the file is a direct child of acme_dir); it is the token with
\* every other character replaced by one '_' and the allowed ones in place;
\* two distinct tokens can have the same file name.
C13_SafeFileName ==
    /\ \A f \in files : \A j \in DOMAIN f.name : f.name[j] \in SafeChars
    /\ challenge # NoChallenge =>
        /\ Len(token) = Len(challenge.token)
        /\ \A j \in DOMAIN token :
              token[j] = IF challenge.token[j] \in SafeChars
                         THEN challenge.token[j] ELSE "_"
        /\ FileInPlace => \E f \in files : f.name = token
    /\ \E t1, t2 \in Tokens : t1 # t2 /\ Sanitize(t1) = Sanitize(t2)

C13_Witness ==
    /\ challenge.token = <<"a", "/">>
    /\ FileExists(<<"a", "_">>)

NewRegsSent == {k \in DOMAIN sent : sent[k].site = "new-reg"}

RefusedTriggers(i) ==
    {k \in DOMAIN sent :
        sent[k].site = "challenge" /\ sent[k].at = i /\ sent[k].status # 202}

\* C15: per domain, the proof file is written only after new-authz was
\* answered 201, the self-check runs on the written file, the trigger is sent
\* only after the self-check passed, and a status GET is made only after the
\* trigger was answered 202; a trigger answered otherwise ends the run with
\* "Error triggering challenge" (the ChallengeTriggerError), no poll made.
C15_StepOrder ==
    \A i \in Positions :
        /\ wrote[i] >= 1 => AnsweredAt("new-authz", i, 201)
        /\ checked[i] # "none" => wrote[i] = 1
        /\ TriggerSentAt(i) => checked[i] = "pass"
        /\ (SendingTrigger /\ i = idx) => checked[i] = "pass"
        /\ lastStatus[i] # "none" => AnsweredAt("challenge", i, 202)
        /\ (i = idx /\ pc \in {"poll", "sleep"}) => AnsweredAt("challenge", i, 202)
        /\ \A k \in RefusedTriggers(i) :
              pc # "trigger_ret" =>
                  /\ pc = "failed"
                  /\ error.msg = "Error triggering challenge"
                  /\ error.code = sent[k].status
                  /\ i = idx /\ polls = 0 /\ lastStatus[i] = "none"

C15_Witness ==
    /\ pc = "failed"
    /\ error.msg = "Error triggering challenge"
    /\ checked[idx] = "pass"
    /\ AnsweredAt("new-authz", idx, 201)
    /\ lastStatus[idx] = "none"

SentCount(s, i) ==
    Cardinality({k \in DOMAIN sent : sent[k].site = s /\ sent[k].at = i})
Expected(s) == IF s = "challenge" THEN 202 ELSE 201
Refused(k) == sent[k].site # "new-reg" /\ sent[k].status # Expected(sent[k].site)

\* C16: new-authz and the trigger are sent at most once per domain and
\* new-cert at most once; an answer to one of them other than the expected
\* status is the last request of the run, which ends with that status in its
\* error; a status GET that failed or read neither pending nor valid ends the
\* run; only the status GET is repeated, each time after a pending answer.
C16_NoRetry ==
    /\ \A i \in Positions :
          /\ SentCount("new-authz", i) <= 1
          /\ SentCount("challenge", i) <= 1
          /\ lastStatus[i] \in {"http_error", "no_response"} \cup OtherStatus =>
                pc = "failed" /\ i = idx
    /\ Cardinality({k \in DOMAIN sent : sent[k].site = "new-cert"}) <= 1
    /\ \A k \in DOMAIN sent :
          Refused(k) =>
              /\ k = Len(sent)
              /\ pc \in {"authz_ret", "trigger_ret", "cert_ret", "failed"}
              /\ pc = "failed" =>
                    error.code = sent[k].status /\ error.at = sent[k].at
    /\ polls <= pendings + 1

C16_Witness ==
    /\ pc = "failed"
    /\ Len(domains) = 2
    /\ sent # <<>>
    /\ sent[Len(sent)].site = "new-cert"
    /\ sent[Len(sent)].status = 400
    /\ error.msg = "Error signing certificate"

SelfCheckRead ==
    /\ idx \in Positions
    /\ resp.url = "wellknown"
    /\ checked[idx] \in {"pass", "mismatch"}
MismatchOutcome ==
    /\ pc = "failed"
    /\ error.msg = "Wrote file to"
    /\ files = {}
    /\ removed[idx] = 1
    /\ ~TriggerSentAt(idx)

C18_AtMostOneProofFile ==
    /\ Cardinality(files) <= 1
    /\ \A i, j \in Positions :
          (i < j /\ wrote[j] >= 1) => (wrote[i] = 1 /\ removed[i] = 1)
    /\ \A i \in Positions : wrote[i] <= 1 /\ removed[i] <= wrote[i]
    /\ (pc = "done" \/ cert # NoCert) =>
          /\ files = {}
          /\ \A i \in DOMAIN domains : wrote[i] = 1 /\ removed[i] = 1

C18_Witness ==
    /\ pc = "done"
    /\ Len(domains) = 2
    /\ wrote[2] = 1
    /\ files = {}

SelfCheckPassedHere == idx \in Positions /\ checked[idx] = "pass"

LocalDicts(name, entry) ==
    SelectSeq(entry[2].val, LAMBDA d : name \in DOMAIN d.items)
\* local > global > default
Precedence(name, c) ==
    IF LocalDicts(name, c.entry) # <<>>
    THEN LocalDicts(name, c.entry)[1].items[name]
    ELSE Get(c.globalconfig, name, DefaultOf(name, c.config, c.entry, c.globalconfig))

\* C20 as stated: every setting parse_config_entry has resolved is the value
\* the entry's own configuration stores under its name if it defines it, else
\* globalconfig's, else the default; the entry's domain names play no part.
C20_LocalGlobalDefault ==
    (cfg.step >= 1 /\ cfg.at = "update") =>
        \A k \in 1..(cfg.step - 1) : cfg.config[Names[k]] = Precedence(Names[k], cfg)

====
